---- MODULE Spec2Model ----
(***************************************************************************)
(* The task service of inago (task/task_service.go): Create launches the   *)
(* action in a goroutine and then persists the initial record; the         *)
(* goroutine marks the shared record as succeeded or failed and persists   *)
(* it again; FetchState reads the Storage; WaitForFinalStatus polls it.    *)
(*                                                                         *)
(* The record created by Create is one object shared by the caller of      *)
(* Create and the goroutine (the closure captures the pointer).  The       *)
(* goroutine is started before Create's PersistState, so the read of the   *)
(* record made for the initial write is not ordered with the goroutine's   *)
(* field assignments: each field read returns the value the field has at   *)
(* the moment of that read.                                                *)
(***************************************************************************)
EXTENDS Integers, FiniteSets, Sequences, TLC

\* Number of Create calls of a run.
MaxCreates == 1
\* Task IDs: one more than Create can use up, so that an ID stays unknown.
IDs == 1..(MaxCreates + 1)

\* The messages of the errors an action may return; NoError is a nil error.
NoError == "nil"
ActionErrors == {"disk full"}

StatusStarted == "started"
StatusStopped == "stopped"
StatusSucceeded == "succeeded"
StatusFailed == "failed"

\* The fields of Task the goroutine assigns, in the order of the struct (ID
\* is set once, at creation, and no read of it races with a write).
Fields == <<"ActiveStatus", "Error", "FinalStatus">>

Task(id, active, err, final) ==
    [ActiveStatus |-> active, Error |-> err, FinalStatus |-> final, ID |-> id]

\* The record Create builds.
NewTask(id) == Task(id, StatusStarted, "", "")

HasFinalStatus(t) == t.FinalStatus \in {StatusFailed, StatusSucceeded}

\* What a call returns: a task pointer (<<>> is nil) and an error.
NilErr == "nil"
NotFoundError == "task object not found"
StorageError == "storage error"
Result(t, e) == [task |-> t, err |-> e]
NoResult == [task |-> <<>>, err |-> "pending"]

VARIABLES
    taskObject,  \* ID -> the in-memory record shared by Create and its goroutine
    storage,     \* ID -> [present, task]: the Storage backend
    cpc,         \* ID -> where the Create call that drew this ID stands
    cbuf,        \* ID -> the record being read for Create's Storage write
    cres,        \* ID -> what Create returned
    upc,         \* ID -> where the goroutine of that Create stands
    uerr,        \* ID -> what the action returned
    ubuf,        \* ID -> the record read for the goroutine's Storage write
    setFailed,   \* ID -> a Storage write of the record failed
    logged,      \* ID -> the goroutine logged a failed terminal transition
    fetched,     \* the last FetchState call: [id, res]
    wpc,         \* where the WaitForFinalStatus call stands
    wid,         \* the ID it waits for
    wres,        \* what it returned
    closer,      \* the closer channel is closed
    caller       \* a caller of PersistState and the Mark calls: its record,
                 \* the last call it made and what the call returned

vars == <<taskObject, storage, cpc, cbuf, cres, upc, uerr, ubuf, setFailed,
          logged, fetched, wpc, wid, wres, closer, caller>>

createVars == <<cpc, cbuf, cres>>
unitVars == <<upc, uerr, ubuf, logged>>
waitVars == <<wpc, wid, wres>>

Init ==
    /\ taskObject = [id \in IDs |-> NewTask(id)]
    /\ storage = [id \in IDs |-> [present |-> FALSE, task |-> NewTask(id)]]
    /\ cpc = [id \in IDs |-> "idle"]
    /\ cbuf = [id \in IDs |-> [got |-> 0, task |-> NewTask(id)]]
    /\ cres = [id \in IDs |-> NoResult]
    /\ upc = [id \in IDs |-> "idle"]
    /\ uerr = [id \in IDs |-> NoError]
    /\ ubuf = [id \in IDs |-> NewTask(id)]
    /\ setFailed = [id \in IDs |-> FALSE]
    /\ logged = [id \in IDs |-> FALSE]
    /\ fetched = [id |-> 0, res |-> NoResult]
    /\ wpc = "idle"
    /\ wid = 0
    /\ wres = NoResult
    /\ closer = FALSE
    /\ caller = [rec |-> <<>>, op |-> "none", res |-> NoResult]

----------------------------------------------------------------------------
\* Storage

\* Storage.Get: the record stored under the ID, or NotFound; ok = FALSE is a
\* failure of the backend.
StorageGet(id, ok) ==
    IF ~ok THEN Result(<<>>, StorageError)
    ELSE IF ~storage[id].present THEN Result(<<>>, NotFoundError)
    ELSE Result(<<storage[id].task>>, NilErr)

\* Storage.Set: the backend after the write of record t (last write wins).
StorageSet(t) == [storage EXCEPT ![t.ID] = [present |-> TRUE, task |-> t]]

----------------------------------------------------------------------------
\* Create

\* The IDs no Create has drawn yet.
FreshIDs == {id \in IDs : cpc[id] = "idle"}

\* A mutant: the generator repeats itself.
NewV4Repeating == CHOOSE id \in IDs : \A other \in IDs : id <= other

\* uuid.NewV4: an ID no earlier Create drew.  IDs are interchangeable, so the
\* draw is the least unused one.
NewV4 == CHOOSE id \in FreshIDs : \A other \in FreshIDs : id <= other

\* Create up to its PersistState call: the record is built and the goroutine
\* is started.
Create(id) ==
    /\ Cardinality(IDs \ FreshIDs) < MaxCreates
    /\ id = NewV4
    /\ taskObject' = [taskObject EXCEPT ![id] = NewTask(id)]
    /\ upc' = [upc EXCEPT ![id] = "action"]
    /\ cpc' = [cpc EXCEPT ![id] = "persist"]
    /\ cbuf' = [cbuf EXCEPT ![id] = [got |-> 0, task |-> NewTask(id)]]
    /\ UNCHANGED <<storage, cres, uerr, ubuf, setFailed, logged, fetched,
                   waitVars, closer>>
    /\ UNCHANGED caller

\* Create's PersistState reads the next field of the shared record for the
\* Storage write.  The goroutine may assign fields between two reads; reading
\* in the order of the struct reaches every mix of old and new field values
\* that another order reaches.
CreateRead(id) ==
    /\ cpc[id] = "persist"
    /\ cbuf[id].got < Len(Fields)
    /\ LET f == Fields[cbuf[id].got + 1] IN
         cbuf' = [cbuf EXCEPT ![id] =
                    [got |-> @.got + 1,
                     task |-> [@.task EXCEPT ![f] = taskObject[id][f]]]]
    /\ UNCHANGED <<taskObject, storage, cpc, cres, unitVars, setFailed,
                   fetched, waitVars, closer>>
    /\ UNCHANGED caller

\* A mutant: Create waits for its goroutine before it returns.
CreateCanReturnAfterAction(id) ==
    /\ cpc[id] = "persist"
    /\ cbuf[id].got = Len(Fields)
    /\ upc[id] = "done"

\* What Create's return waits for: its own PersistState, nothing else.
CreateCanReturn(id) ==
    /\ cpc[id] = "persist"
    /\ cbuf[id].got = Len(Fields)

\* A mutant: a Create whose write failed takes its goroutine down with it.
CreateReturnCancelling(id, ok) ==
    /\ CreateCanReturn(id)
    /\ cpc' = [cpc EXCEPT ![id] = "done"]
    /\ IF ok
         THEN /\ storage' = StorageSet(cbuf[id].task)
              /\ cres' = [cres EXCEPT ![id] = Result(<<id>>, NilErr)]
              /\ UNCHANGED <<setFailed, upc>>
         ELSE /\ cres' = [cres EXCEPT ![id] = Result(<<>>, StorageError)]
              /\ setFailed' = [setFailed EXCEPT ![id] = TRUE]
              /\ upc' = [upc EXCEPT ![id] = "done"]
              /\ UNCHANGED storage
    /\ cbuf' = [cbuf EXCEPT ![id] = [got |-> 0, task |-> NewTask(id)]]
    /\ UNCHANGED <<taskObject, uerr, ubuf, logged, fetched, waitVars, closer>>
    /\ UNCHANGED caller

\* Create's Storage write lands (or fails), and Create returns; the record it
\* had read for the write is a local of the call and goes with it.
CreateReturn(id, ok) ==
    /\ CreateCanReturn(id)
    /\ cpc' = [cpc EXCEPT ![id] = "done"]
    /\ IF ok
         THEN /\ storage' = StorageSet(cbuf[id].task)
              /\ cres' = [cres EXCEPT ![id] = Result(<<id>>, NilErr)]
              /\ UNCHANGED setFailed
         ELSE /\ cres' = [cres EXCEPT ![id] = Result(<<>>, StorageError)]
              /\ setFailed' = [setFailed EXCEPT ![id] = TRUE]
              /\ UNCHANGED storage
    /\ cbuf' = [cbuf EXCEPT ![id] = [got |-> 0, task |-> NewTask(id)]]
    /\ UNCHANGED <<taskObject, unitVars, fetched, waitVars, closer>>
    /\ UNCHANGED caller

----------------------------------------------------------------------------
\* The goroutine of Create

\* The action returns e.
ActionReturns(id, e) ==
    /\ upc[id] = "action"
    /\ uerr' = [uerr EXCEPT ![id] = e]
    /\ upc' = [upc EXCEPT ![id] = IF e = NoError THEN "s155" ELSE "f142"]
    /\ UNCHANGED <<taskObject, storage, createVars, ubuf, setFailed, logged,
                   fetched, waitVars, closer>>
    /\ UNCHANGED caller

\* The assignments of MarkAsFailedWithError, one at a time.
MarkAsFailedWithError(id) ==
    /\ upc[id] \in {"f142", "f143", "f144"}
    /\ CASE upc[id] = "f142" ->
              /\ taskObject' = [taskObject EXCEPT ![id].ActiveStatus = StatusStopped]
              /\ upc' = [upc EXCEPT ![id] = "f143"]
         [] upc[id] = "f143" ->
              /\ taskObject' = [taskObject EXCEPT ![id].Error = uerr[id]]
              /\ upc' = [upc EXCEPT ![id] = "f144"]
         [] upc[id] = "f144" ->
              /\ taskObject' = [taskObject EXCEPT ![id].FinalStatus = StatusFailed]
              /\ upc' = [upc EXCEPT ![id] = "persist"]
    /\ UNCHANGED <<storage, createVars, uerr, ubuf, setFailed, logged,
                   fetched, waitVars, closer>>
    /\ UNCHANGED caller

\* The assignments of MarkAsSucceeded, one at a time.
MarkAsSucceeded(id) ==
    /\ upc[id] \in {"s155", "s156"}
    /\ CASE upc[id] = "s155" ->
              /\ taskObject' = [taskObject EXCEPT ![id].ActiveStatus = StatusStopped]
              /\ upc' = [upc EXCEPT ![id] = "s156"]
         [] upc[id] = "s156" ->
              /\ taskObject' = [taskObject EXCEPT ![id].FinalStatus = StatusSucceeded]
              /\ upc' = [upc EXCEPT ![id] = "persist"]
    /\ UNCHANGED <<storage, createVars, uerr, ubuf, setFailed, logged,
                   fetched, waitVars, closer>>
    /\ UNCHANGED caller

\* The goroutine's PersistState reads the record.  The goroutine is the only
\* writer of the record and has made all its assignments, so the fields are
\* read at once.
UnitPersist(id) ==
    /\ upc[id] = "persist"
    /\ ubuf' = [ubuf EXCEPT ![id] = taskObject[id]]
    /\ upc' = [upc EXCEPT ![id] = "set"]
    /\ UNCHANGED <<taskObject, storage, createVars, uerr, setFailed, logged,
                   fetched, waitVars, closer>>
    /\ UNCHANGED caller

\* A mutant: the goroutine's write waits until Create's write has been made.
UnitReturnAfterCreate(id, ok) ==
    /\ upc[id] = "set"
    /\ cpc[id] = "done"
    /\ upc' = [upc EXCEPT ![id] = "done"]
    /\ IF ok
         THEN /\ storage' = StorageSet(ubuf[id])
              /\ UNCHANGED <<setFailed, logged>>
         ELSE /\ setFailed' = [setFailed EXCEPT ![id] = TRUE]
              /\ logged' = [logged EXCEPT ![id] = TRUE]
              /\ UNCHANGED storage
    /\ ubuf' = [ubuf EXCEPT ![id] = NewTask(id)]
    /\ UNCHANGED <<taskObject, createVars, uerr, fetched, waitVars, closer>>
    /\ UNCHANGED caller

\* A mutant: the return after MarkAsFailedWithError (lines 110 and 112) is
\* missing, so the goroutine goes on to MarkAsSucceeded.
UnitReturnFallingThrough(id, ok) ==
    /\ upc[id] = "set"
    /\ upc' = [upc EXCEPT ![id] = IF uerr[id] = NoError THEN "done" ELSE "s155"]
    /\ IF ok
         THEN /\ storage' = StorageSet(ubuf[id])
              /\ UNCHANGED <<setFailed, logged>>
         ELSE /\ setFailed' = [setFailed EXCEPT ![id] = TRUE]
              /\ logged' = [logged EXCEPT ![id] = TRUE]
              /\ UNCHANGED storage
    /\ ubuf' = [ubuf EXCEPT ![id] = NewTask(id)]
    /\ UNCHANGED <<taskObject, createVars, uerr, fetched, waitVars, closer>>
    /\ UNCHANGED caller

\* The goroutine's Storage write lands, or fails and is logged; the goroutine
\* ends.
UnitReturn(id, ok) ==
    /\ upc[id] = "set"
    /\ upc' = [upc EXCEPT ![id] = "done"]
    /\ IF ok
         THEN /\ storage' = StorageSet(ubuf[id])
              /\ UNCHANGED <<setFailed, logged>>
         ELSE /\ setFailed' = [setFailed EXCEPT ![id] = TRUE]
              /\ logged' = [logged EXCEPT ![id] = TRUE]
              /\ UNCHANGED storage
    /\ ubuf' = [ubuf EXCEPT ![id] = NewTask(id)]
    /\ UNCHANGED <<taskObject, createVars, uerr, fetched, waitVars, closer>>
    /\ UNCHANGED caller

----------------------------------------------------------------------------
\* FetchState

\* A mutant: a fetch of a missing record puts a new record in its place.
FetchStateCreating(id, ok) ==
    /\ fetched' = [id |-> id, res |-> StorageGet(id, ok)]
    /\ storage' = IF storage[id].present THEN storage ELSE StorageSet(NewTask(id))
    /\ UNCHANGED <<taskObject, createVars, unitVars, setFailed, waitVars, closer>>
    /\ UNCHANGED caller

\* FetchState(id): the record Storage holds for id, or the error of the read.
FetchState(id, ok) ==
    /\ fetched' = [id |-> id, res |-> StorageGet(id, ok)]
    /\ UNCHANGED <<taskObject, storage, createVars, unitVars, setFailed,
                   waitVars, closer>>
    /\ UNCHANGED caller

----------------------------------------------------------------------------
\* WaitForFinalStatus

\* The call, with the ID to wait for.
WaitCall(id) ==
    /\ wpc = "idle"
    /\ wpc' = "select"
    /\ wid' = id
    /\ UNCHANGED <<taskObject, storage, createVars, unitVars, setFailed,
                   fetched, wres, closer>>
    /\ UNCHANGED caller

\* The closer is closed (by the caller, at any moment).
Close ==
    /\ ~closer
    /\ closer' = TRUE
    /\ UNCHANGED <<taskObject, storage, createVars, unitVars, setFailed,
                   fetched, waitVars>>
    /\ UNCHANGED caller

\* A mutant: the timer case can be taken although the closer is closed.
SelectCasesAnyOrder == IF closer THEN {"closer", "timer"} ELSE {"timer"}

\* The cases the select can take.  The timer is armed when the select is
\* entered (WaitSleep is positive) and the select takes the first channel
\* that is ready: the closer when it is closed already, else the timer for as
\* long as the closer is not closed.
SelectCases == IF closer THEN {"closer"} ELSE {"timer"}

\* A mutant: giving up the wait also ends the goroutine of the task.
WaitClosedStopsAction ==
    /\ wpc = "select"
    /\ "closer" \in SelectCases
    /\ wpc' = "done"
    /\ wres' = Result(<<>>, NilErr)
    /\ upc' = [upc EXCEPT ![wid] = IF @ = "idle" THEN @ ELSE "done"]
    /\ UNCHANGED <<taskObject, storage, createVars, uerr, ubuf, logged,
                   setFailed, fetched, wid, closer>>
    /\ UNCHANGED caller

\* select: case <-closer.
WaitClosed ==
    /\ wpc = "select"
    /\ "closer" \in SelectCases
    /\ wpc' = "done"
    /\ wres' = Result(<<>>, NilErr)
    /\ UNCHANGED <<taskObject, storage, createVars, unitVars, setFailed,
                   fetched, wid, closer>>
    /\ UNCHANGED caller

\* select: case <-time.After(ts.WaitSleep).
WaitTimer ==
    /\ wpc = "select"
    /\ "timer" \in SelectCases
    /\ wpc' = "fetch"
    /\ UNCHANGED <<taskObject, storage, createVars, unitVars, setFailed,
                   fetched, wid, wres, closer>>
    /\ UNCHANGED caller

\* A mutant: a failed fetch is retried at the next tick.
AfterFetchRetrying(r) ==
    IF r.err # NilErr THEN [pc |-> "select", res |-> NoResult]
    ELSE IF HasFinalStatus(r.task[1]) THEN [pc |-> "done", res |-> Result(r.task, NilErr)]
    ELSE [pc |-> "select", res |-> NoResult]

\* A mutant: the fetched record is returned whatever its status.
AfterFetchAnyStatus(r) ==
    IF r.err # NilErr THEN [pc |-> "done", res |-> Result(<<>>, r.err)]
    ELSE [pc |-> "done", res |-> Result(r.task, NilErr)]

\* A mutant: the wait gives up after a fetch of a record that is not final.
AfterFetchGivingUp(r) ==
    IF r.err # NilErr THEN [pc |-> "done", res |-> Result(<<>>, r.err)]
    ELSE IF HasFinalStatus(r.task[1]) THEN [pc |-> "done", res |-> Result(r.task, NilErr)]
    ELSE [pc |-> "done", res |-> Result(<<>>, NilErr)]

\* What the timer case does with r, the result of its FetchState: return the
\* error, return the record that has a final status, or go round the loop.
AfterFetch(r) ==
    IF r.err # NilErr THEN [pc |-> "done", res |-> Result(<<>>, r.err)]
    ELSE IF HasFinalStatus(r.task[1]) THEN [pc |-> "done", res |-> Result(r.task, NilErr)]
    ELSE [pc |-> "select", res |-> NoResult]

\* The body of the timer case.
WaitFetch(ok) ==
    /\ wpc = "fetch"
    /\ wpc' = AfterFetch(StorageGet(wid, ok)).pc
    /\ wres' = AfterFetch(StorageGet(wid, ok)).res
    /\ UNCHANGED <<taskObject, storage, createVars, unitVars, setFailed,
                   fetched, wid, closer>>
    /\ UNCHANGED caller

----------------------------------------------------------------------------
\* PersistState, MarkAsSucceeded and MarkAsFailedWithError called on a record
\* that only the caller holds: the calls run to their end one after another.

\* A mutant: MarkAsSucceeded leaves a record alone that is marked failed.
MarkedSucceededGuarded(t) ==
    IF t.FinalStatus = StatusFailed THEN t
    ELSE [t EXCEPT !.ActiveStatus = StatusStopped, !.FinalStatus = StatusSucceeded]

\* The record after the assignments of MarkAsSucceeded.
MarkedSucceeded(t) ==
    [t EXCEPT !.ActiveStatus = StatusStopped, !.FinalStatus = StatusSucceeded]

\* The record after the assignments of MarkAsFailedWithError.
MarkedFailed(t, e) ==
    [t EXCEPT !.ActiveStatus = StatusStopped, !.Error = e, !.FinalStatus = StatusFailed]

\* A mutant: PersistState leaves the error text out of what it writes.
PersistedWithoutError(t) == [t EXCEPT !.Error = ""]

\* The record PersistState hands to Storage.Set.
Persisted(t) == t

\* The caller takes a new record, built as Create builds it.
CallNew(id) ==
    /\ caller' = [rec |-> <<NewTask(id)>>, op |-> "New", res |-> NoResult]
    /\ UNCHANGED <<taskObject, storage, createVars, unitVars, setFailed,
                   fetched, waitVars, closer>>

\* PersistState(rec).
CallPersistState(ok) ==
    /\ caller.rec # <<>>
    /\ storage' = IF ok THEN StorageSet(Persisted(caller.rec[1])) ELSE storage
    /\ caller' = [caller EXCEPT
                    !.op = "PersistState",
                    !.res = Result(<<>>, IF ok THEN NilErr ELSE StorageError)]
    /\ UNCHANGED <<taskObject, createVars, unitVars, setFailed, fetched,
                   waitVars, closer>>

\* A mutant: MarkAsSucceeded assigns the record only once the write succeeded.
CallMarkAsSucceededAssigningLate(ok) ==
    /\ caller.rec # <<>>
    /\ LET t == MarkedSucceeded(caller.rec[1]) IN
         /\ storage' = IF ok THEN StorageSet(Persisted(t)) ELSE storage
         /\ caller' = [rec |-> IF ok THEN <<t>> ELSE caller.rec,
                       op |-> "MarkAsSucceeded",
                       res |-> IF ok THEN Result(<<t>>, NilErr)
                                     ELSE Result(<<>>, StorageError)]
    /\ UNCHANGED <<taskObject, createVars, unitVars, setFailed, fetched,
                   waitVars, closer>>

\* MarkAsSucceeded(rec): the record is assigned, then persisted; the call
\* returns the record, or nil and the error of the write.
CallMarkAsSucceeded(ok) ==
    /\ caller.rec # <<>>
    /\ LET t == MarkedSucceeded(caller.rec[1]) IN
         /\ storage' = IF ok THEN StorageSet(Persisted(t)) ELSE storage
         /\ caller' = [rec |-> <<t>>,
                       op |-> "MarkAsSucceeded",
                       res |-> IF ok THEN Result(<<t>>, NilErr)
                                     ELSE Result(<<>>, StorageError)]
    /\ UNCHANGED <<taskObject, createVars, unitVars, setFailed, fetched,
                   waitVars, closer>>

\* MarkAsFailedWithError(rec, e).
CallMarkAsFailedWithError(e, ok) ==
    /\ caller.rec # <<>>
    /\ LET t == MarkedFailed(caller.rec[1], e) IN
         /\ storage' = IF ok THEN StorageSet(Persisted(t)) ELSE storage
         /\ caller' = [rec |-> <<t>>,
                       op |-> "MarkAsFailedWithError",
                       res |-> IF ok THEN Result(<<t>>, NilErr)
                                     ELSE Result(<<>>, StorageError)]
    /\ UNCHANGED <<taskObject, createVars, unitVars, setFailed, fetched,
                   waitVars, closer>>

----------------------------------------------------------------------------

\* Create and its goroutine.
CreateNext ==
    \/ \E id \in IDs : Create(id)
    \/ \E id \in IDs : CreateRead(id)
    \/ \E id \in IDs, ok \in BOOLEAN : CreateReturn(id, ok)
    \/ \E id \in IDs, e \in {NoError} \cup ActionErrors : ActionReturns(id, e)
    \/ \E id \in IDs : MarkAsFailedWithError(id)
    \/ \E id \in IDs : MarkAsSucceeded(id)
    \/ \E id \in IDs : UnitPersist(id)
    \/ \E id \in IDs, ok \in BOOLEAN : UnitReturn(id, ok)

\* A caller of FetchState.
FetchNext == \E id \in IDs, ok \in BOOLEAN : FetchState(id, ok)

\* A caller of WaitForFinalStatus, who holds the closer.
WaitNext ==
    \/ \E id \in IDs : WaitCall(id)
    \/ Close
    \/ WaitClosed
    \/ WaitTimer
    \/ \E ok \in BOOLEAN : WaitFetch(ok)

Next == CreateNext \/ FetchNext \/ WaitNext

Spec == Init /\ [][Next]_vars

\* The service with a waiting caller and no other reader.
WaitSpec == Init /\ [][CreateNext \/ WaitNext]_vars

\* The scheduler runs every goroutine that can take a step, timers fire and
\* calls to the Storage return; an action that is running returns.  Nothing
\* makes a caller call, or close the closer.
Fairness ==
    /\ \A id \in IDs : WF_vars(CreateRead(id))
    /\ \A id \in IDs : WF_vars(\E ok \in BOOLEAN : CreateReturn(id, ok))
    /\ \A id \in IDs : WF_vars(\E e \in {NoError} \cup ActionErrors : ActionReturns(id, e))
    /\ \A id \in IDs : WF_vars(MarkAsFailedWithError(id))
    /\ \A id \in IDs : WF_vars(MarkAsSucceeded(id))
    /\ \A id \in IDs : WF_vars(UnitPersist(id))
    /\ \A id \in IDs : WF_vars(\E ok \in BOOLEAN : UnitReturn(id, ok))
    /\ WF_vars(WaitClosed)
    /\ WF_vars(WaitTimer)
    /\ WF_vars(\E ok \in BOOLEAN : WaitFetch(ok))

FairSpec == Spec /\ Fairness

FairWaitSpec == WaitSpec /\ Fairness

\* Create and its goroutine alone.
CreateSpec == Init /\ [][CreateNext]_vars

FairCreateSpec == CreateSpec /\ Fairness

\* A second Create, for the runs of two concurrent Create calls.
PairCreate(id) ==
    /\ Cardinality(IDs \ FreshIDs) < 2
    /\ id = NewV4
    /\ taskObject' = [taskObject EXCEPT ![id] = NewTask(id)]
    /\ upc' = [upc EXCEPT ![id] = "action"]
    /\ cpc' = [cpc EXCEPT ![id] = "persist"]
    /\ cbuf' = [cbuf EXCEPT ![id] = [got |-> 0, task |-> NewTask(id)]]
    /\ UNCHANGED <<storage, cres, uerr, ubuf, setFailed, logged, fetched,
                   waitVars, closer, caller>>

\* Two Create calls and their goroutines.
PairSpec == Init /\ [][CreateNext \/ \E id \in IDs : PairCreate(id)]_vars

FairPairSpec == PairSpec /\ Fairness

\* A caller of PersistState and the Mark calls, and a caller of FetchState.
CallNext ==
    \/ \E id \in IDs : CallNew(id)
    \/ \E ok \in BOOLEAN : CallPersistState(ok)
    \/ \E ok \in BOOLEAN : CallMarkAsSucceeded(ok)
    \/ \E e \in ActionErrors, ok \in BOOLEAN : CallMarkAsFailedWithError(e, ok)

CallSpec == Init /\ [][CallNext \/ FetchNext]_vars

----------------------------------------------------------------------------
\* What FetchState returns when the Storage answers.
Stored(id) == StorageGet(id, TRUE)

\* The action of the Create that drew id has returned e.
ActionReturned(id, e) ==
    /\ upc[id] \notin {"idle", "action"}
    /\ uerr[id] = e

\* C1: every record FetchState returns with a non-empty FinalStatus has
\* ActiveStatus = Stopped, whatever Create and its goroutine are doing.
C1_FetchedFinalIsStopped ==
    fetched.res.task # <<>> =>
        (HasFinalStatus(fetched.res.task[1]) =>
            fetched.res.task[1].ActiveStatus = StatusStopped)

\* C2: once a fetch of an ID has returned a record with FinalStatus Succeeded
\* or Failed, the next fetch of that ID that returns a record returns the same
\* FinalStatus.
C2_FetchedFinalStatusNeverChanges ==
    [][(/\ fetched.res.task # <<>>
        /\ HasFinalStatus(fetched.res.task[1])
        /\ fetched'.id = fetched.id
        /\ fetched'.res.task # <<>>)
       => fetched'.res.task[1].FinalStatus = fetched.res.task[1].FinalStatus]_vars

\* C3: when the action returns no error and no Storage write of the task
\* fails, FetchState of the task's ID eventually returns, and keeps returning,
\* the record (Stopped, Succeeded, no Error).
C3_SucceededIsEventuallyFetched ==
    \A id \in IDs :
        ([]~setFailed[id]) =>
            (ActionReturned(id, NoError) ~>
                [](Stored(id) = Result(<<Task(id, StatusStopped, "", StatusSucceeded)>>, NilErr)))

NilNil == Result(<<>>, NilErr)
FinalStored(id) == storage[id].present /\ HasFinalStatus(storage[id].task)

C6_FailedFetchEndsWait ==
    /\ [](wpc = "fetch" => ENABLED (\E ok \in BOOLEAN : WaitFetch(ok)))
    /\ [](wres.err \in {NotFoundError, StorageError} =>
              (wpc = "done" /\ wres.task = <<>>))
    /\ [][(wpc = "fetch" /\ wpc' # "fetch" /\ ~storage[wid].present) =>
              (/\ wpc' = "done"
               /\ wres'.task = <<>>
               /\ wres'.err \in {NotFoundError, StorageError})]_vars
    /\ [][wpc = "done" => (wpc' = "done" /\ wres' = wres)]_vars

\* The wait for an ID that no Create drew has returned NotFound.
C6_Witness ==
    wpc = "done" /\ wres = Result(<<>>, NotFoundError) /\ cpc[wid] = "idle"

\* C7: a wait returns (nil, nil), (nil, error) or (task, nil), and the task it
\* returns has the requested ID and a final status.
C7_WaitOutcomes ==
    /\ wpc # "done" => wres = NoResult
    /\ wpc = "done" =>
         \/ wres = NilNil
         \/ wres.task = <<>> /\ wres.err \in {NotFoundError, StorageError}
         \/ /\ wres.err = NilErr
            /\ Len(wres.task) = 1
            /\ wres.task[1].ID = wid
            /\ HasFinalStatus(wres.task[1])

\* The wait has returned a task.
C7_Witness == wpc = "done" /\ wres.task # <<>>

\* C8: when the closer is never closed, no fetch fails and the record stored
\* under the ID is final from some point on, the wait returns (task, nil); and
\* a wait returns only when the closer is closed, a fetch fails, or the record
\* stored under the ID is final.
C8_WaitReturnsOnceFinal ==
    /\ (/\ []~closer
        /\ [](wres.err \in {NoResult.err, NilErr})
        /\ <>[](wpc # "idle" /\ FinalStored(wid)))
       => <>(wpc = "done" /\ wres.task # <<>>)
    /\ [][(wpc # "done" /\ wpc' = "done") =>
              \/ closer /\ wres' = NilNil
              \/ wres'.err # NilErr
              \/ wres'.task # <<>> /\ FinalStored(wid)]_vars

\* The wait returned a task and the closer was never closed.
C8_Witness == wpc = "done" /\ wres.task # <<>> /\ ~closer

\* C9: giving up a wait changes nothing of the task: the step that returns
\* (nil, nil) leaves the goroutine and the records alone, and when no Storage
\* write fails, a task whose action was running when its waiter gave up gets
\* a final record stored.
C9_GivenUpWaitLeavesAction ==
    /\ [][(wpc # "done" /\ wpc' = "done" /\ wres' = NilNil) =>
              UNCHANGED <<upc, uerr, taskObject, storage>>]_vars
    /\ \A id \in IDs :
         ([]~setFailed[id]) =>
            ((wpc = "done" /\ wres = NilNil /\ wid = id /\ upc[id] = "action")
               ~> FinalStored(id))

\* The wait was given up while the action of its task was running.
C9_Witness == wpc = "done" /\ wres = NilNil /\ upc[wid] = "action"

\* C10: Create waits for nothing but its own PersistState: while Create is in
\* it, its next step can be taken whatever the goroutine does; the ID it draws
\* has no record yet; and a Create that returned a task returned the ID under
\* which a record is stored.
C10_CreateDoesNotWait ==
    /\ [](\A id \in IDs :
            /\ cpc[id] = "persist" =>
                 ENABLED (CreateRead(id) \/ \E ok \in BOOLEAN : CreateReturn(id, ok))
            /\ cpc[id] # "done" => cres[id] = NoResult
            /\ cpc[id] = "done" =>
                 \/ cres[id] = Result(<<id>>, NilErr) /\ storage[id].present
                 \/ cres[id] = Result(<<>>, StorageError))
    /\ [][\A id \in IDs :
            (cpc[id] = "idle" /\ cpc'[id] # "idle") =>
                (~storage[id].present /\ upc[id] = "idle")]_vars

\* Create has returned the task while its action is still running.
C10_Witness ==
    \E id \in IDs : cres[id] = Result(<<id>>, NilErr) /\ upc[id] = "action"

\* The record the goroutine stores when the action has returned e.
TerminalTask(id, e) ==
    IF e = NoError THEN Task(id, StatusStopped, "", StatusSucceeded)
    ELSE Task(id, StatusStopped, e, StatusFailed)

\* The step is a Storage write made for the task id: the write of its Create
\* or the write of its goroutine.
WriteStepOf(id) ==
    \/ cpc[id] = "persist" /\ cpc'[id] = "done"
    \/ upc[id] = "set" /\ upc'[id] = "done"

\* C11: two Create calls draw different IDs; a step changes the record stored
\* under an ID only as a Storage write made for that task; a final status
\* stored under an ID is the one of that task's own action; and when no
\* Storage write of a task fails, the record its goroutine built from the
\* outcome of its action gets stored.
C11_TasksDoNotInterfere ==
    /\ [][\A id \in IDs :
            (cpc[id] # "persist" /\ cpc'[id] = "persist") => cpc[id] = "idle"]_vars
    /\ [][\A id \in IDs : storage'[id] # storage[id] => WriteStepOf(id)]_vars
    /\ [](\A id \in IDs :
            (storage[id].present /\ HasFinalStatus(storage[id].task)) =>
                /\ upc[id] \notin {"idle", "action"}
                /\ storage[id].task.FinalStatus = TerminalTask(id, uerr[id]).FinalStatus)
    /\ \A id \in IDs : \A e \in {NoError} \cup ActionErrors :
         ([]~setFailed[id]) =>
            ((upc[id] \in {"s155", "f142"} /\ uerr[id] = e)
               ~> (Stored(id) = Result(<<TerminalTask(id, e)>>, NilErr)))

\* Two tasks have been created; one is stored as succeeded, the other as failed.
C11_Witness ==
    \E a \in IDs, b \in IDs :
        /\ a # b
        /\ Stored(a) = Result(<<TerminalTask(a, NoError)>>, NilErr)
        /\ \E e \in ActionErrors : Stored(b) = Result(<<TerminalTask(b, e)>>, NilErr)

\* The last call of the caller was a PersistState of its record that succeeded.
JustPersisted ==
    /\ caller.op = "PersistState"
    /\ caller.res.err = NilErr

\* C12: after a PersistState(t) that succeeded and before any other write, the
\* record stored under t.ID is t, and a FetchState of t.ID that succeeds
\* returns a record equal to t in every field.
C12_PersistFetchRoundTrip ==
    /\ [](JustPersisted => Stored(caller.rec[1].ID) = Result(caller.rec, NilErr))
    /\ [][(/\ JustPersisted
           /\ caller' = caller
           /\ fetched' # fetched
           /\ fetched'.id = caller.rec[1].ID
           /\ fetched'.res.err = NilErr)
          => fetched'.res.task = caller.rec]_vars

\* A record with an error text was persisted and fetched back.
C12_Witness ==
    /\ JustPersisted
    /\ caller.rec[1].Error # ""
    /\ fetched = [id |-> caller.rec[1].ID, res |-> Result(caller.rec, NilErr)]

\* A record carries an error text only together with the final status failed.
ErrorOnlyWhenFailed(t) == t.Error # "" => t.FinalStatus = StatusFailed

\* C13: every record in Storage, and every record FetchState returned, has a
\* non-empty Error only when its FinalStatus is failed, also when it was
\* persisted while the goroutine was inside MarkAsFailedWithError.
C13_ErrorOnlyWhenFailed ==
    /\ \A id \in IDs : storage[id].present => ErrorOnlyWhenFailed(storage[id].task)
    /\ fetched.res.task # <<>> => ErrorOnlyWhenFailed(fetched.res.task[1])

\* The goroutine is inside MarkAsFailedWithError / inside MarkAsSucceeded,
\* before the PersistState call the two share.
InMarkAsFailed(id) == upc[id] \in {"f142", "f143", "f144"}
InMarkAsSucceeded(id) == upc[id] \in {"s155", "s156"}

\* C14: the goroutine of a task makes one terminal-transition call, after the
\* action ended: MarkAsFailedWithError if the action failed, MarkAsSucceeded
\* if it succeeded, never both; Create and the goroutine each make one Storage
\* write at most, so an ID receives two writes at most.
C14_OneTerminalTransition ==
    /\ [][\A id \in IDs :
            /\ (upc[id] # "f142" /\ upc'[id] = "f142") =>
                   (upc[id] = "action" /\ uerr'[id] \in ActionErrors)
            /\ (upc[id] # "s155" /\ upc'[id] = "s155") =>
                   (upc[id] = "action" /\ uerr'[id] = NoError)
            /\ (upc[id] = "action" /\ upc'[id] # "action") =>
                   upc'[id] \in {"f142", "s155"}
            /\ (upc[id] # "action" /\ upc'[id] = "action") => upc[id] = "idle"
            /\ (InMarkAsFailed(id) \/ InMarkAsSucceeded(id)) => uerr'[id] = uerr[id]]_vars
    /\ [](\A id \in IDs : /\ InMarkAsFailed(id) => uerr[id] \in ActionErrors
                          /\ InMarkAsSucceeded(id) => uerr[id] = NoError)
    /\ [][\A id \in IDs : /\ storage'[id] # storage[id] => WriteStepOf(id)
                          /\ cpc[id] = "done" => cpc'[id] = "done"
                          /\ upc[id] = "done" => upc'[id] = "done"]_vars

\* Both writes of a task whose action failed have been made.
C14_Witness ==
    \E id \in IDs :
        /\ cpc[id] = "done" /\ upc[id] = "done" /\ ~setFailed[id]
        /\ uerr[id] \in ActionErrors
        /\ Stored(id) = Result(<<TerminalTask(id, uerr[id])>>, NilErr)

\* C15: the goroutine is started before Create calls PersistState, and nothing
\* orders Create's initial write and the goroutine's terminal write: while
\* both are pending either can land first, and Create's write, landing last,
\* stores the record Create had read, so the terminal update can be lost.
C15_WritesAreUnordered ==
    /\ [](\A id \in IDs : cpc[id] = "persist" => upc[id] # "idle")
    /\ [](\A id \in IDs : (CreateCanReturn(id) /\ upc[id] = "set") =>
              /\ ENABLED CreateReturn(id, TRUE)
              /\ ENABLED UnitReturn(id, TRUE))
    /\ [][\A id \in IDs :
            (cpc[id] = "persist" /\ cpc'[id] = "done" /\ cres'[id].err = NilErr) =>
                storage'[id] = [present |-> TRUE, task |-> cbuf[id].task]]_vars

\* The terminal write landed first and the initial write replaced it: both
\* writes succeeded and Storage holds the record as Create built it.
C15_Witness ==
    \E id \in IDs :
        /\ cpc[id] = "done" /\ upc[id] = "done" /\ ~setFailed[id]
        /\ Stored(id) = Result(<<NewTask(id)>>, NilErr)

\* Create returned the task and the goroutine's terminal write failed.
TerminalWriteFailed(id) ==
    /\ cpc[id] = "done" /\ cres[id] = Result(<<id>>, NilErr)
    /\ upc[id] = "done" /\ logged[id]

\* C16: when the goroutine's terminal write fails, nothing retries it: the
\* stored record stays started with an empty final status, and a
\* WaitForFinalStatus for the task never returns a task.
C16_FailedTerminalWriteLeavesStarted ==
    /\ \A id \in IDs : TerminalWriteFailed(id) =>
           Stored(id) = Result(<<NewTask(id)>>, NilErr)
    /\ (wpc = "done" /\ TerminalWriteFailed(wid)) => wres.task = <<>>

\* Create returned (nil, error): its initial write failed.
CreateFailed(id) == cres[id] = Result(<<>>, StorageError)

\* C17: a Create whose initial write fails returns (nil, error) and no task,
\* but its action was launched before the write: the goroutine is left as it
\* is, the action runs to its end and the goroutine attempts its terminal
\* write, so a record can appear under an ID the caller never received.
C17_FailedCreateStillRuns ==
    /\ [](\A id \in IDs : CreateFailed(id) => upc[id] # "idle")
    /\ [][\A id \in IDs :
            (cpc[id] = "persist" /\ cpc'[id] = "done" /\ cres'[id].err # NilErr) =>
                /\ CreateFailed(id)'
                /\ upc'[id] = upc[id]
                /\ taskObject'[id] = taskObject[id]
                /\ storage' = storage]_vars
    /\ \A id \in IDs :
         /\ (CreateFailed(id) /\ upc[id] \notin {"set", "done"}) ~> (upc[id] = "set")
         /\ CreateFailed(id) ~> (upc[id] = "done")

\* Create returned no task, and Storage holds the terminal record of that ID.
C17_Witness ==
    \E id \in IDs :
        /\ CreateFailed(id)
        /\ Stored(id) = Result(<<TerminalTask(id, uerr[id])>>, NilErr)

\* The last call of the caller was a MarkAsSucceeded or MarkAsFailedWithError
\* whose write failed.
MarkFailedToPersist ==
    /\ caller.op \in {"MarkAsSucceeded", "MarkAsFailedWithError"}
    /\ caller.res.err # NilErr

\* What a terminal-transition call whose write fails returns and leaves
\* behind: (nil, error), Storage as it was, the record of the caller with
\* the terminal values.
FailedMarkEffect ==
    /\ [][MarkFailedToPersist' =>
            /\ caller'.res = Result(<<>>, StorageError)
            /\ storage' = storage]_vars
    /\ [](MarkFailedToPersist =>
            /\ caller.rec[1].ActiveStatus = StatusStopped
            /\ caller.op = "MarkAsSucceeded" =>
                   caller.rec[1].FinalStatus = StatusSucceeded
            /\ caller.op = "MarkAsFailedWithError" =>
                   /\ caller.rec[1].FinalStatus = StatusFailed
                   /\ caller.rec[1].Error \in ActionErrors)

\* C18 as stated: a terminal-transition call whose write fails returns
\* (nil, error) and leaves Storage unchanged, the record passed in has the
\* terminal values, and so the record of the caller and the stored record
\* differ.
C18_FailedMarkDiffers ==
    /\ FailedMarkEffect
    /\ [](MarkFailedToPersist =>
            Stored(caller.rec[1].ID) # Result(caller.rec, NilErr))

\* C18, amended: as above, but the record of the caller and the stored record
\* differ only if the stored record is not yet terminal; after an earlier
\* terminal transition of the same record that was persisted, they are equal.
C18_FailedMarkDiffersUnlessStored ==
    /\ FailedMarkEffect
    /\ [](MarkFailedToPersist =>
            \/ Stored(caller.rec[1].ID) # Result(caller.rec, NilErr)
            \/ HasFinalStatus(storage[caller.rec[1].ID].task))
    /\ [][(MarkFailedToPersist' /\ caller' # caller
             /\ storage[caller.rec[1].ID] # [present |-> TRUE, task |-> caller'.rec[1]])
          => Stored(caller.rec[1].ID)' # Result(caller'.rec, NilErr)]_vars

\* A MarkAsFailedWithError whose write failed, on a record stored as started.
C18_Witness ==
    /\ MarkFailedToPersist
    /\ caller.op = "MarkAsFailedWithError"
    /\ Stored(caller.rec[1].ID) = Result(<<NewTask(caller.rec[1].ID)>>, NilErr)

\* What Create and the goroutines own: the records, Storage, their positions
\* and results.
serviceVars == <<taskObject, storage, createVars, unitVars, setFailed>>

\* C19: FetchState and WaitForFinalStatus only read: whatever their outcome,
\* their steps leave Storage, the records and the goroutines as they are, and
\* what they return is what Storage holds for the requested ID (or the error
\* of the read).
C19_FetchAndWaitReadOnly ==
    /\ [][(fetched' # fetched \/ waitVars' # waitVars) => UNCHANGED serviceVars]_vars
    /\ [][fetched' # fetched =>
            \E ok \in BOOLEAN : fetched'.res = StorageGet(fetched'.id, ok)]_vars
    /\ [][(wres' # wres /\ wres'.task # <<>>) =>
            /\ wid' = wid
            /\ wres' = StorageGet(wid, TRUE)]_vars

\* The waiter returned a task, a FetchState returned the same record, and
\* Storage still holds it.
C19_Witness ==
    /\ wpc = "done" /\ wres.task # <<>>
    /\ fetched = [id |-> wid, res |-> wres]
    /\ Stored(wid) = wres

\* The caller holds a record, and its next step is a MarkAsSucceeded.
MarkAsSucceededStep ==
    /\ caller.rec # <<>>
    /\ caller'.op = "MarkAsSucceeded"

\* C20: MarkAsSucceeded applied to a record that is succeeded already leaves
\* the record as it is, and Storage too if the record was stored; applied to
\* a record marked failed it sets FinalStatus to succeeded all the same and
\* leaves the error text in place.
C20_MarkAsSucceededTwice ==
    /\ [][(MarkAsSucceededStep /\ caller.rec[1].FinalStatus = StatusSucceeded) =>
            /\ caller'.rec = caller.rec
            /\ (caller.op = "MarkAsSucceeded" /\ caller.res.err = NilErr) =>
                   storage' = storage]_vars
    /\ [][(MarkAsSucceededStep /\ caller.rec[1].FinalStatus = StatusFailed) =>
            /\ caller'.rec[1] = [caller.rec[1] EXCEPT !.FinalStatus = StatusSucceeded]
            /\ caller'.rec[1].Error = caller.rec[1].Error
            /\ caller'.res.err = NilErr =>
                   /\ caller'.res.task = caller'.rec
                   /\ Stored(caller.rec[1].ID)' = Result(caller'.rec, NilErr)]_vars

\* MarkAsSucceeded was applied to a record marked failed and was persisted:
\* the stored record is succeeded and carries the error text.
C20_Witness ==
    /\ caller.op = "MarkAsSucceeded" /\ caller.res.err = NilErr
    /\ caller.rec[1].Error \in ActionErrors
    /\ caller.rec[1].FinalStatus = StatusSucceeded
    /\ Stored(caller.rec[1].ID) = Result(caller.rec, NilErr)

====
